---- MODULE Spec2Model ----
(***************************************************************************)
(* Cluster generation of pilot/pkg/networking/v1alpha3/cluster.go:         *)
(* BuildClusters and the traffic-policy layering it is built on.           *)
(*                                                                         *)
(* Go pointers are records; the nil pointer is the record Nil.  A          *)
(* time.Duration is an integer number of milliseconds (the inputs carry    *)
(* whole milliseconds, so the conversion from a protobuf Duration is       *)
(* exact).  A cluster name (model.BuildSubsetKey) is the record of its     *)
(* four parts.                                                             *)
(***************************************************************************)
EXTENDS Integers, Sequences, FiniteSets

VARIABLES env, proxy, proxyReply, pc, clusters, result, cl, prevCl, lastPolicy, lastPool, ppc

vars == <<env, proxy, proxyReply, pc, clusters, result, cl, prevCl, lastPolicy, lastPool, ppc>>

buildVars == <<env, proxy, proxyReply, pc, clusters, result>>

policyVars == <<cl, prevCl, lastPolicy, lastPool, ppc>>

(***************************************************************************)
(* Bounds of the model.                                                    *)
(***************************************************************************)
MaxServices == 2

MaxPorts == 2

MaxSubsets == 1

MaxInstances == 2

MaxManagementPorts == 1

(***************************************************************************)
(* Values.                                                                 *)
(***************************************************************************)
Nil == [nil |-> TRUE]

Second == 1000

NanosPerMilli == Second * Second

defaultClusterConnectTimeout == 5 * Second

ManagementClusterHostname == "mgmtCluster"

xdsName == "xds-grpc"

DefaultLbType == "ROUND_ROBIN"

DiscoveryTypes == {"STATIC", "STRICT_DNS", "EDS", "ORIGINAL_DST"}

UInt32Value(v) == [Value |-> v]

Duration(s, n) == [Seconds |-> s, Nanos |-> n]

\* util.ConvertGogoDurationToDuration: seconds and nanoseconds to one duration
ConvertGogoDurationToDuration(d) ==
    IF d = Nil THEN 0 ELSE d.Seconds * Second + (d.Nanos \div NanosPerMilli)

BuildSubsetKey(direction, subsetName, hostname, port) ==
    [direction |-> direction, subset |-> subsetName, hostname |-> hostname, port |-> port.Port]

BuildAddress(ip, port) == [Address |-> ip, Port |-> port]

(***************************************************************************)
(* The policy application engine.                                          *)
(***************************************************************************)
\* the threshold fields a connection-pool block sets
thresholdOf(settings) ==
    LET http == settings.Http
        tcp == settings.Tcp
    IN [MaxConnections |->
            IF tcp # Nil /\ tcp.MaxConnections > 0
            THEN UInt32Value(tcp.MaxConnections) ELSE Nil,
        MaxPendingRequests |->
            IF http # Nil /\ http.Http1MaxPendingRequests > 0
            THEN UInt32Value(http.Http1MaxPendingRequests) ELSE Nil,
        MaxRequests |->
            IF http # Nil /\ http.Http2MaxRequests > 0
            THEN UInt32Value(http.Http2MaxRequests) ELSE Nil,
        MaxRetries |->
            IF http # Nil /\ http.MaxRetries > 0
            THEN UInt32Value(http.MaxRetries) ELSE Nil]

\* faulty variant: the new threshold is merged into the one the cluster carries
applyConnectionPoolMerging(cluster, settings) ==
    IF settings = Nil THEN cluster
    ELSE
        LET http == settings.Http
            tcp == settings.Tcp
            new == thresholdOf(settings)
            old == IF cluster.CircuitBreakers = Nil
                   THEN [MaxConnections |-> Nil, MaxPendingRequests |-> Nil,
                         MaxRequests |-> Nil, MaxRetries |-> Nil]
                   ELSE cluster.CircuitBreakers.Thresholds[1]
            merged == [f \in DOMAIN new |-> IF new[f] # Nil THEN new[f] ELSE old[f]]
        IN [cluster EXCEPT
              !.MaxRequestsPerConnection =
                  IF http # Nil /\ http.MaxRequestsPerConnection > 0
                  THEN UInt32Value(http.MaxRequestsPerConnection) ELSE @,
              !.ConnectTimeout =
                  IF tcp # Nil /\ tcp.ConnectTimeout # Nil
                  THEN ConvertGogoDurationToDuration(tcp.ConnectTimeout) ELSE @,
              !.CircuitBreakers = [Thresholds |-> <<merged>>]]

\* faulty variant: a connect timeout of zero is taken as unset
applyConnectionPoolPositiveTimeout(cluster, settings) ==
    IF settings = Nil THEN cluster
    ELSE
        LET http == settings.Http
            tcp == settings.Tcp
        IN [cluster EXCEPT
              !.MaxRequestsPerConnection =
                  IF http # Nil /\ http.MaxRequestsPerConnection > 0
                  THEN UInt32Value(http.MaxRequestsPerConnection) ELSE @,
              !.ConnectTimeout =
                  IF tcp # Nil /\ tcp.ConnectTimeout # Nil
                     /\ ConvertGogoDurationToDuration(tcp.ConnectTimeout) > 0
                  THEN ConvertGogoDurationToDuration(tcp.ConnectTimeout) ELSE @,
              !.CircuitBreakers = [Thresholds |-> <<thresholdOf(settings)>>]]

applyConnectionPool(cluster, settings) ==
    IF settings = Nil THEN cluster
    ELSE
        LET http == settings.Http
            tcp == settings.Tcp
            threshold ==
                [MaxConnections |->
                    IF tcp # Nil /\ tcp.MaxConnections > 0
                    THEN UInt32Value(tcp.MaxConnections) ELSE Nil,
                 MaxPendingRequests |->
                    IF http # Nil /\ http.Http1MaxPendingRequests > 0
                    THEN UInt32Value(http.Http1MaxPendingRequests) ELSE Nil,
                 MaxRequests |->
                    IF http # Nil /\ http.Http2MaxRequests > 0
                    THEN UInt32Value(http.Http2MaxRequests) ELSE Nil,
                 MaxRetries |->
                    IF http # Nil /\ http.MaxRetries > 0
                    THEN UInt32Value(http.MaxRetries) ELSE Nil]
        IN [cluster EXCEPT
              !.MaxRequestsPerConnection =
                  IF http # Nil /\ http.MaxRequestsPerConnection > 0
                  THEN UInt32Value(http.MaxRequestsPerConnection) ELSE @,
              !.ConnectTimeout =
                  IF tcp # Nil /\ tcp.ConnectTimeout # Nil
                  THEN ConvertGogoDurationToDuration(tcp.ConnectTimeout) ELSE @,
              !.CircuitBreakers = [Thresholds |-> <<threshold>>]]

applyOutlierDetection(cluster, outlier) ==
    IF outlier = Nil \/ outlier.Http = Nil THEN cluster
    ELSE
        LET out ==
                [BaseEjectionTime |-> outlier.Http.BaseEjectionTime,
                 Consecutive_5Xx |->
                    IF outlier.Http.ConsecutiveErrors > 0
                    THEN UInt32Value(outlier.Http.ConsecutiveErrors) ELSE Nil,
                 Interval |-> outlier.Http.Interval,
                 MaxEjectionPercent |->
                    IF outlier.Http.MaxEjectionPercent > 0
                    THEN UInt32Value(outlier.Http.MaxEjectionPercent) ELSE Nil]
        IN [cluster EXCEPT !.OutlierDetection = out]

\* faulty variant: passthrough sets the load-balancing mode only
applyLoadBalancerKeepsType(cluster, lb) ==
    IF lb = Nil THEN cluster
    ELSE CASE lb.Simple = "LEAST_CONN" -> [cluster EXCEPT !.LbPolicy = "LEAST_REQUEST"]
           [] lb.Simple = "RANDOM" -> [cluster EXCEPT !.LbPolicy = "RANDOM"]
           [] lb.Simple = "ROUND_ROBIN" -> [cluster EXCEPT !.LbPolicy = "ROUND_ROBIN"]
           [] lb.Simple = "PASSTHROUGH" -> [cluster EXCEPT !.LbPolicy = "ORIGINAL_DST_LB"]
           [] OTHER -> cluster

applyLoadBalancer(cluster, lb) ==
    IF lb = Nil THEN cluster
    ELSE CASE lb.Simple = "LEAST_CONN" -> [cluster EXCEPT !.LbPolicy = "LEAST_REQUEST"]
           [] lb.Simple = "RANDOM" -> [cluster EXCEPT !.LbPolicy = "RANDOM"]
           [] lb.Simple = "ROUND_ROBIN" -> [cluster EXCEPT !.LbPolicy = "ROUND_ROBIN"]
           [] lb.Simple = "PASSTHROUGH" ->
                [cluster EXCEPT !.LbPolicy = "ORIGINAL_DST_LB", !.Type = "ORIGINAL_DST"]
           [] OTHER -> cluster

applyUpstreamTLSSettings(cluster, tls) ==
    IF tls = Nil THEN cluster
    ELSE
        LET validation ==
                [TrustedCa |-> tls.CaCertificates,
                 VerifySubjectAltName |-> tls.SubjectAltNames]
        IN CASE tls.Mode = "DISABLE" -> cluster
             [] tls.Mode = "SIMPLE" ->
                  [cluster EXCEPT !.TlsContext =
                      [CommonTlsContext |->
                          [TlsCertificates |-> <<>>,
                           ValidationContext |-> validation],
                       Sni |-> tls.Sni]]
             [] tls.Mode = "MUTUAL" ->
                  [cluster EXCEPT !.TlsContext =
                      [CommonTlsContext |->
                          [TlsCertificates |->
                              <<[CertificateChain |-> tls.ClientCertificate,
                                 PrivateKey |-> tls.PrivateKey]>>,
                           ValidationContext |-> validation],
                       Sni |-> tls.Sni]]
             [] OTHER -> cluster

applyTrafficPolicy(cluster, policy) ==
    IF policy = Nil THEN cluster
    ELSE applyUpstreamTLSSettings(
             applyLoadBalancer(
                 applyOutlierDetection(
                     applyConnectionPool(cluster, policy.ConnectionPool),
                     policy.OutlierDetection),
                 policy.LoadBalancer),
             policy.Tls)

buildDefaultTrafficPolicy(e, discoveryType) ==
    [ConnectionPool |->
        [Http |-> Nil,
         Tcp |-> [ConnectTimeout |->
                      Duration(e.Mesh.ConnectTimeout.Seconds, e.Mesh.ConnectTimeout.Nanos),
                  MaxConnections |-> 0]],
     OutlierDetection |-> Nil,
     LoadBalancer |->
        [Simple |-> IF discoveryType = "ORIGINAL_DST" THEN "PASSTHROUGH" ELSE DefaultLbType],
     Tls |-> Nil]

newCluster(name, discoveryType, hosts) ==
    [Name |-> name,
     Type |-> discoveryType,
     Hosts |-> hosts,
     ConnectTimeout |-> 0,
     LbPolicy |-> "ROUND_ROBIN",
     CircuitBreakers |-> Nil,
     MaxRequestsPerConnection |-> Nil,
     OutlierDetection |-> Nil,
     TlsContext |-> Nil,
     EdsClusterConfig |-> Nil,
     Http2ProtocolOptions |-> Nil]

buildDefaultCluster(e, name, discoveryType, hosts) ==
    applyTrafficPolicy(newCluster(name, discoveryType, hosts),
                       buildDefaultTrafficPolicy(e, discoveryType))

convertResolution(resolution) ==
    CASE resolution = "ClientSideLB" -> "EDS"
      [] resolution = "DNSLB" -> "STRICT_DNS"
      [] resolution = "Passthrough" -> "ORIGINAL_DST"
      [] OTHER -> "EDS"

\* faulty variant: the mesh refresh delay is used as it is
updateEdsNoFallback(e, cluster) ==
    IF cluster.Type # "EDS" THEN cluster
    ELSE [cluster EXCEPT !.EdsClusterConfig =
             [ServiceName |-> cluster.Name,
              EdsConfig |->
                  [ApiType |-> "GRPC",
                   ClusterNames |-> <<xdsName>>,
                   RefreshDelay |-> e.Mesh.RdsRefreshDelay.Seconds * Second]]]

updateEds(e, cluster) ==
    IF cluster.Type # "EDS" THEN cluster
    ELSE
        LET seconds == e.Mesh.RdsRefreshDelay.Seconds * Second
            refresh == IF seconds = 0 THEN 5 * Second ELSE seconds
        IN [cluster EXCEPT !.EdsClusterConfig =
               [ServiceName |-> cluster.Name,
                EdsConfig |->
                    [ApiType |-> "GRPC",
                     ClusterNames |-> <<xdsName>>,
                     RefreshDelay |-> refresh]]]

setUpstreamProtocol(cluster, port) ==
    IF port.Protocol \in {"HTTP", "HTTP2", "GRPC"}
       /\ (port.Protocol = "HTTP2" \/ port.Protocol = "GRPC")
    THEN [cluster EXCEPT !.Http2ProtocolOptions = [set |-> TRUE]]
    ELSE cluster

(***************************************************************************)
(* The registry and configuration store, as the generator reads them.      *)
(***************************************************************************)
Min(a, b) == IF a < b THEN a ELSE b

RECURSIVE Flatten(_)
Flatten(ss) == IF ss = <<>> THEN <<>> ELSE Head(ss) \o Flatten(Tail(ss))

Hostnames == <<"reviews.default.svc", "ratings.default.svc", "details.default.svc">>

AllPorts ==
    <<[Name |-> "http", Port |-> 80, Protocol |-> "HTTP"],
      [Name |-> "grpc", Port |-> 90, Protocol |-> "GRPC"],
      [Name |-> "tcp", Port |-> 9000, Protocol |-> "TCP"]>>

\* env.Instances: the endpoints the registry holds for a DNS-resolved service;
\* the query for the second hostname fails.
Instances(e, hostname, portName) ==
    IF hostname = Hostnames[2]
    THEN [err |-> TRUE, instances |-> <<>>]
    ELSE [err |-> FALSE,
          instances |-> <<[Endpoint |-> [Address |-> "10.0.0.1", Port |-> 8080]]>>]

\* env.DestinationRule
DestinationRule(e, hostname) ==
    IF hostname \in DOMAIN e.DestinationRules THEN e.DestinationRules[hostname] ELSE Nil

buildClusterHosts(e, service, port) ==
    IF service.Resolution # "DNSLB" THEN <<>>
    ELSE
        LET r == Instances(e, service.Hostname, port.Name)
        IN IF r.err THEN <<>>
           ELSE [i \in 1..Len(r.instances) |->
                    BuildAddress(r.instances[i].Endpoint.Address, r.instances[i].Endpoint.Port)]

(***************************************************************************)
(* The outbound and inbound builders.                                      *)
(***************************************************************************)
\* the body of the port loop of buildOutboundClusters
outboundClustersOfPort(e, service, config, port) ==
    LET hosts == buildClusterHosts(e, service, port)
        build(subsetName) ==
            setUpstreamProtocol(
                updateEds(e,
                    buildDefaultCluster(e,
                        BuildSubsetKey("outbound", subsetName, service.Hostname, port),
                        convertResolution(service.Resolution), hosts)),
                port)
        defaultCluster ==
            IF config # Nil THEN applyTrafficPolicy(build(""), config.TrafficPolicy)
            ELSE build("")
        subsetCluster(subset) ==
            applyTrafficPolicy(
                applyTrafficPolicy(build(subset.Name), config.TrafficPolicy),
                subset.TrafficPolicy)
    IN <<defaultCluster>> \o
       (IF config # Nil
        THEN [i \in 1..Len(config.Subsets) |-> subsetCluster(config.Subsets[i])]
        ELSE <<>>)

\* faulty variant: the subsets of a rule get no cluster
buildOutboundClustersDefaultsOnly(e, services) ==
    Flatten([i \in 1..Len(services) |->
        Flatten([j \in 1..Len(services[i].Ports) |->
            <<Head(outboundClustersOfPort(e, services[i],
                       DestinationRule(e, services[i].Hostname), services[i].Ports[j]))>>])])

buildOutboundClusters(e, services) ==
    Flatten([i \in 1..Len(services) |->
        Flatten([j \in 1..Len(services[i].Ports) |->
            outboundClustersOfPort(e, services[i],
                DestinationRule(e, services[i].Hostname), services[i].Ports[j])])])

\* faulty variant: the instance clusters are addressed at the endpoint's own address
buildInboundClustersEndpointAddress(e, instances, managementPorts) ==
    [i \in 1..Len(instances) |->
        setUpstreamProtocol(
            buildDefaultCluster(e,
                BuildSubsetKey("inbound", "", instances[i].Service.Hostname,
                               instances[i].Endpoint.ServicePort),
                "STATIC",
                <<BuildAddress(instances[i].Endpoint.Address, instances[i].Endpoint.Port)>>),
            instances[i].Endpoint.ServicePort)]
    \o
    [i \in 1..Len(managementPorts) |->
        setUpstreamProtocol(
            buildDefaultCluster(e,
                BuildSubsetKey("inbound", "", ManagementClusterHostname, managementPorts[i]),
                "STATIC",
                <<BuildAddress("127.0.0.1", managementPorts[i].Port)>>),
            managementPorts[i])]

buildInboundClusters(e, instances, managementPorts) ==
    [i \in 1..Len(instances) |->
        setUpstreamProtocol(
            buildDefaultCluster(e,
                BuildSubsetKey("inbound", "", instances[i].Service.Hostname,
                               instances[i].Endpoint.ServicePort),
                "STATIC",
                <<BuildAddress("127.0.0.1", instances[i].Endpoint.Port)>>),
            instances[i].Endpoint.ServicePort)]
    \o
    [i \in 1..Len(managementPorts) |->
        setUpstreamProtocol(
            buildDefaultCluster(e,
                BuildSubsetKey("inbound", "", ManagementClusterHostname, managementPorts[i]),
                "STATIC",
                <<BuildAddress("127.0.0.1", managementPorts[i].Port)>>),
            managementPorts[i])]

jwksCluster(mesh) ==
    [newCluster([direction |-> "jwks", subset |-> "", hostname |-> "jwks.example", port |-> 443],
                "STRICT_DNS", <<BuildAddress("jwks.example", 443)>>)
     EXCEPT !.ConnectTimeout = ConvertGogoDurationToDuration(mesh.ConnectTimeout)]

\* authn.BuildJwksURIClustersForProxyInstances: the auxiliary clusters of the
\* authentication plugin, appended as they are; the configuration store holds
\* one JWT policy
BuildJwksURIClustersForProxyInstances(e, instances) ==
    IF instances = <<>> THEN <<>> ELSE <<jwksCluster(e.Mesh)>>

\* the connect-timeout pass of BuildClusters
fixConnectTimeout(cs) ==
    [i \in 1..Len(cs) |->
        IF cs[i].ConnectTimeout = 0
        THEN [cs[i] EXCEPT !.ConnectTimeout = defaultClusterConnectTimeout]
        ELSE cs[i]]

(***************************************************************************)
(* Inputs: mesh configuration, registry snapshot, destination rules.       *)
(***************************************************************************)
MeshConfigs ==
    [ConnectTimeout : {Duration(0, 0), Duration(1, 0)},
     RdsRefreshDelay : {Duration(0, 0), Duration(2, 0)}]

Resolutions == {"ClientSideLB", "DNSLB", "Passthrough"}

HTTPSettingsFull ==
    [Http2MaxRequests |-> 100, Http1MaxPendingRequests |-> 7,
     MaxRequestsPerConnection |-> 2, MaxRetries |-> 3]

HTTPSettingsZero ==
    [Http2MaxRequests |-> 0, Http1MaxPendingRequests |-> 0,
     MaxRequestsPerConnection |-> 0, MaxRetries |-> 0]

cpTcp10 == [Http |-> Nil, Tcp |-> [ConnectTimeout |-> Nil, MaxConnections |-> 10]]

cpTcp20 == [Http |-> Nil, Tcp |-> [ConnectTimeout |-> Nil, MaxConnections |-> 20]]

cpFull ==
    [Http |-> HTTPSettingsFull,
     Tcp |-> [ConnectTimeout |-> Duration(3, 0), MaxConnections |-> 10]]

cpZero ==
    [Http |-> HTTPSettingsZero,
     Tcp |-> [ConnectTimeout |-> Duration(0, 0), MaxConnections |-> 0]]

cpEmpty == [Http |-> Nil, Tcp |-> Nil]

ConnectionPools == {cpTcp10, cpTcp20, cpFull, cpZero, cpEmpty}

odHttp ==
    [Http |-> [BaseEjectionTime |-> Duration(30, 0), ConsecutiveErrors |-> 5,
               Interval |-> Duration(10, 0), MaxEjectionPercent |-> 50]]

odHttpZero ==
    [Http |-> [BaseEjectionTime |-> Nil, ConsecutiveErrors |-> 0,
               Interval |-> Nil, MaxEjectionPercent |-> 0]]

odNoHttp == [Http |-> Nil]

OutlierDetections == {odHttp, odHttpZero, odNoHttp}

LoadBalancers == [Simple : {"ROUND_ROBIN", "LEAST_CONN", "RANDOM", "PASSTHROUGH"}]

tlsOf(mode) ==
    [Mode |-> mode, ClientCertificate |-> "cert.pem", PrivateKey |-> "key.pem",
     CaCertificates |-> "ca.pem", SubjectAltNames |-> <<"spiffe://a">>, Sni |-> "sni.example"]

TLSSettings == {tlsOf("DISABLE"), tlsOf("SIMPLE"), tlsOf("MUTUAL")}

policyOf(cp, od, lb, tls) ==
    [ConnectionPool |-> cp, OutlierDetection |-> od, LoadBalancer |-> lb, Tls |-> tls]

\* policies with one block, and a few with all four
Policies ==
    {Nil, policyOf(Nil, Nil, Nil, Nil)}
    \cup {policyOf(cp, Nil, Nil, Nil) : cp \in ConnectionPools}
    \cup {policyOf(Nil, od, Nil, Nil) : od \in OutlierDetections}
    \cup {policyOf(Nil, Nil, lb, Nil) : lb \in LoadBalancers}
    \cup {policyOf(Nil, Nil, Nil, tls) : tls \in TLSSettings}
    \cup {policyOf(cpFull, odHttp, [Simple |-> "RANDOM"], tlsOf("SIMPLE")),
          policyOf(cpTcp20, odNoHttp, [Simple |-> "LEAST_CONN"], tlsOf("DISABLE")),
          policyOf(cpZero, odHttpZero, [Simple |-> "PASSTHROUGH"], tlsOf("MUTUAL"))}

RulePolicies ==
    {Nil,
     policyOf(Nil, Nil, [Simple |-> "PASSTHROUGH"], Nil),
     policyOf(cpFull, odHttp, [Simple |-> "RANDOM"], tlsOf("SIMPLE"))}

\* the subsets of a destination rule, in the order of the document
AllSubsets ==
    <<[Name |-> "v1",
       TrafficPolicy |->
           policyOf(cpTcp20, odNoHttp, [Simple |-> "LEAST_CONN"], tlsOf("DISABLE"))],
      [Name |-> "v2", TrafficPolicy |-> Nil],
      [Name |-> "v3", TrafficPolicy |-> policyOf(Nil, Nil, [Simple |-> "RANDOM"], Nil)]>>

\* no destination rule, or one with any of the top-level policies
Rules ==
    {Nil} \cup
    {[TrafficPolicy |-> p,
      Subsets |-> SubSeq(AllSubsets, 1, Min(MaxSubsets, Len(AllSubsets)))] :
        p \in RulePolicies}

\* the first service of the registry has several ports, the others one
ServicePorts(i) ==
    SubSeq(AllPorts, 1, IF i = 1 THEN Min(MaxPorts, Len(AllPorts)) ELSE 1)

ServiceShapes == [Resolution : Resolutions, Rule : Rules]

ServiceShapeLists ==
    UNION {[1..k -> ServiceShapes] : k \in 0..Min(MaxServices, Len(Hostnames))}

\* env.Services: an error, or the list of services
RegistryReplies ==
    {[err |-> TRUE, shapes |-> <<>>]}
    \cup {[err |-> FALSE, shapes |-> sl] : sl \in ServiceShapeLists}

AllInstances ==
    <<[Service |-> [Hostname |-> Hostnames[1]],
       Endpoint |-> [Address |-> "10.0.0.5", Port |-> 8080, ServicePort |-> AllPorts[1]]],
      [Service |-> [Hostname |-> Hostnames[1]],
       Endpoint |-> [Address |-> "10.0.0.5", Port |-> 9090, ServicePort |-> AllPorts[2]]],
      [Service |-> [Hostname |-> Hostnames[2]],
       Endpoint |-> [Address |-> "10.0.0.5", Port |-> 7070, ServicePort |-> AllPorts[3]]]>>

AllManagementPorts ==
    <<[Name |-> "mgmt", Port |-> 15020, Protocol |-> "HTTP"],
      [Name |-> "mgmt2", Port |-> 15021, Protocol |-> "TCP"]>>

\* env.GetProxyServiceInstances and proxyReply.ports: what the registry
\* answers for the proxy
NoProxyReply == [asked |-> FALSE, err |-> FALSE, instances |-> <<>>, ports |-> <<>>]

FailedProxyReply == [asked |-> TRUE, err |-> TRUE, instances |-> <<>>, ports |-> <<>>]

ProxyReplies ==
    {[asked |-> TRUE, err |-> FALSE,
      instances |-> SubSeq(AllInstances, 1, n),
      ports |-> SubSeq(AllManagementPorts, 1, m)] :
        n \in 0..Min(MaxInstances, Len(AllInstances)),
        m \in 0..Min(MaxManagementPorts, Len(AllManagementPorts))}

MkEnv(mesh, reply) ==
    [Mesh |-> mesh,
     ServicesErr |-> reply.err,
     Services |->
        [i \in 1..Len(reply.shapes) |->
            [Hostname |-> Hostnames[i],
             Ports |-> ServicePorts(i),
             Resolution |-> reply.shapes[i].Resolution]],
     DestinationRules |->
        [h \in {Hostnames[i] : i \in 1..Len(reply.shapes)} |->
            LET i == CHOOSE i \in 1..Len(reply.shapes) : Hostnames[i] = h
            IN reply.shapes[i].Rule]]

(***************************************************************************)
(* BuildClusters, one generation pass for one proxy.                       *)
(***************************************************************************)
\* the outcome of the call: nothing yet, nil, or the list held by clusters
Pending == [done |-> FALSE, isNil |-> FALSE]

ReturnNil == [done |-> TRUE, isNil |-> TRUE]

ReturnClusters == [done |-> TRUE, isNil |-> FALSE]

Init ==
    /\ \E mesh \in MeshConfigs, reply \in RegistryReplies : env = MkEnv(mesh, reply)
    /\ \E type \in {"sidecar", "router"} : proxy = [Type |-> type, IPAddress |-> "10.0.0.5"]
    /\ proxyReply = NoProxyReply
    /\ pc = "services"
    /\ clusters = <<>>
    /\ result = Pending
    /\ cl = Nil
    /\ prevCl = Nil
    /\ lastPolicy = Nil
    /\ lastPool = Nil
    /\ ppc = "off"

\* lines 56-60: the service list query fails
ServicesFailed ==
    /\ pc = "services"
    /\ env.ServicesErr
    /\ result' = ReturnNil
    /\ pc' = "done"
    /\ UNCHANGED <<env, proxy, proxyReply, clusters>>
    /\ UNCHANGED policyVars

\* lines 62-68: the outbound clusters and the connect-timeout pass
BuildOutbound ==
    /\ pc = "services"
    /\ ~env.ServicesErr
    /\ clusters' = fixConnectTimeout(clusters \o buildOutboundClusters(env, env.Services))
    /\ pc' = "proxy"
    /\ UNCHANGED <<env, proxy, proxyReply, result>>
    /\ UNCHANGED policyVars

\* faulty variant: the clusters built so far are returned when the instance query fails
ProxyInstancesFailedPartial ==
    /\ pc = "proxy"
    /\ proxy.Type = "sidecar"
    /\ proxyReply' = FailedProxyReply
    /\ result' = ReturnClusters
    /\ pc' = "done"
    /\ UNCHANGED <<env, proxy, clusters>>
    /\ UNCHANGED policyVars

\* lines 69-74: the proxy's instances cannot be read
ProxyInstancesFailed ==
    /\ pc = "proxy"
    /\ proxy.Type = "sidecar"
    /\ proxyReply' = FailedProxyReply
    /\ result' = ReturnNil
    /\ pc' = "done"
    /\ UNCHANGED <<env, proxy, clusters>>
    /\ UNCHANGED policyVars

\* lines 69-85: the inbound and auxiliary clusters of a sidecar
BuildInbound ==
    /\ pc = "proxy"
    /\ proxy.Type = "sidecar"
    /\ \E reply \in ProxyReplies :
         /\ proxyReply' = reply
         /\ clusters' = clusters
                        \o buildInboundClusters(env, reply.instances, reply.ports)
                        \o BuildJwksURIClustersForProxyInstances(env, reply.instances)
    /\ result' = ReturnClusters
    /\ pc' = "done"
    /\ UNCHANGED <<env, proxy>>
    /\ UNCHANGED policyVars

\* lines 69, 85: any other proxy gets the outbound clusters
ReturnOutbound ==
    /\ pc = "proxy"
    /\ proxy.Type # "sidecar"
    /\ result' = ReturnClusters
    /\ pc' = "done"
    /\ UNCHANGED <<env, proxy, proxyReply, clusters>>
    /\ UNCHANGED policyVars

Next ==
    \/ ServicesFailed
    \/ BuildOutbound
    \/ ProxyInstancesFailed
    \/ BuildInbound
    \/ ReturnOutbound

Spec == Init /\ [][Next]_vars

(***************************************************************************)
(* The policy layers of one cluster: the shell, the baseline, the EDS and  *)
(* protocol set-up, then traffic policies one after the other.             *)
(***************************************************************************)
PolicyInit ==
    /\ \E mesh \in MeshConfigs : env = MkEnv(mesh, [err |-> FALSE, shapes |-> <<>>])
    /\ proxy = [Type |-> "router", IPAddress |-> "10.0.0.5"]
    /\ proxyReply = NoProxyReply
    /\ pc = "off"
    /\ clusters = <<>>
    /\ result = Pending
    /\ \E t \in DiscoveryTypes :
         cl = newCluster(BuildSubsetKey("outbound", "", Hostnames[1], AllPorts[1]), t, <<>>)
    /\ prevCl = Nil
    /\ lastPolicy = Nil
    /\ lastPool = Nil
    /\ ppc = "shell"

\* lines 364-365: the baseline policy on the shell
ApplyDefaultPolicy ==
    /\ ppc = "shell"
    /\ cl' = buildDefaultCluster(env, cl.Name, cl.Type, cl.Hosts)
    /\ prevCl' = cl
    /\ lastPolicy' = buildDefaultTrafficPolicy(env, cl.Type)
    /\ lastPool' = lastPolicy'.ConnectionPool
    /\ ppc' = "built"
    /\ UNCHANGED buildVars

\* lines 98-99: EDS linkage and upstream protocol
SetUpCluster ==
    /\ ppc = "built"
    /\ cl' = setUpstreamProtocol(updateEds(env, cl), AllPorts[1])
    /\ ppc' = "ready"
    /\ UNCHANGED <<prevCl, lastPolicy, lastPool>>
    /\ UNCHANGED buildVars

\* lines 104, 111, 112: a rule-level or subset-level policy
ApplyPolicy ==
    /\ ppc \in {"ready", "layered"}
    /\ \E policy \in Policies :
         /\ cl' = applyTrafficPolicy(cl, policy)
         /\ prevCl' = cl
         /\ lastPolicy' = policy
         /\ lastPool' = IF policy # Nil /\ policy.ConnectionPool # Nil
                        THEN policy.ConnectionPool ELSE lastPool
    /\ ppc' = "layered"
    /\ UNCHANGED buildVars

PolicyNext ==
    \/ ApplyDefaultPolicy
    \/ SetUpCluster
    \/ ApplyPolicy

PolicySpec == PolicyInit /\ [][PolicyNext]_vars

(***************************************************************************)
(* Properties.                                                             *)
(***************************************************************************)
Returned == result.done /\ ~result.isNil

\* the list BuildClusters returned
ReturnedList == IF Returned THEN clusters ELSE <<>>

\* the clusters the builders of this file make (not the auxiliary ones)
Built(cs) == SelectSeq(cs, LAMBDA c : c.Name.direction \in {"outbound", "inbound"})

OfDirection(cs, d) == SelectSeq(cs, LAMBDA c : c.Name.direction = d)

Named(cs, name) == {i \in 1..Len(cs) : cs[i].Name = name}

OutboundBuilt == pc = "proxy" \/ (pc = "done" /\ ~env.ServicesErr)

\* C1: every cluster BuildClusters returns (outbound default, outbound subset,
\* inbound instance, inbound management port) has a connect timeout that is
\* not zero, for every mesh configuration.
C1_ConnectTimeoutNeverZero ==
    Returned =>
        LET built == Built(ReturnedList)
        IN \A i \in 1..Len(built) : built[i].ConnectTimeout # 0

\* C2: in every cluster BuildClusters returns, the discovery type is EDS if
\* and only if the cluster carries an EDS linkage block.
C2_EdsIffLinkage ==
    Returned =>
        LET built == Built(ReturnedList)
        IN \A i \in 1..Len(built) :
              (built[i].Type = "EDS") <=> (built[i].EdsClusterConfig # Nil)

topLevelPassthrough(rule) ==
    /\ rule # Nil
    /\ rule.TrafficPolicy # Nil
    /\ rule.TrafficPolicy.LoadBalancer # Nil
    /\ rule.TrafficPolicy.LoadBalancer.Simple = "PASSTHROUGH"

DefaultClusterName(service, port) == BuildSubsetKey("outbound", "", service.Hostname, port)

\* C3 as stated: for every client-side-load-balanced service and port, whatever
\* the destination rule, the default outbound cluster has discovery type EDS
\* and an EDS linkage whose refresh delay is not zero.
C3_DefaultClusterIsEds ==
    OutboundBuilt =>
        \A i \in 1..Len(env.Services) :
            env.Services[i].Resolution = "ClientSideLB" =>
                \A j \in 1..Len(env.Services[i].Ports) :
                    LET name == DefaultClusterName(env.Services[i], env.Services[i].Ports[j])
                    IN /\ Named(clusters, name) # {}
                       /\ \A k \in Named(clusters, name) :
                            /\ clusters[k].Type = "EDS"
                            /\ clusters[k].EdsClusterConfig # Nil
                            /\ clusters[k].EdsClusterConfig.EdsConfig.RefreshDelay # 0

\* C3 amended: for every client-side-load-balanced service and port, the
\* default outbound cluster has discovery type EDS and an EDS linkage whose
\* refresh delay is not zero, unless the top-level policy of the service's
\* destination rule has the passthrough load balancer, and then its discovery
\* type is ORIGINAL_DST.
C3_DefaultClusterIsEdsUnlessPassthrough ==
    OutboundBuilt =>
        \A i \in 1..Len(env.Services) :
            env.Services[i].Resolution = "ClientSideLB" =>
                \A j \in 1..Len(env.Services[i].Ports) :
                    LET name == DefaultClusterName(env.Services[i], env.Services[i].Ports[j])
                        rule == DestinationRule(env, env.Services[i].Hostname)
                    IN /\ Named(clusters, name) # {}
                       /\ \A k \in Named(clusters, name) :
                            IF topLevelPassthrough(rule)
                            THEN clusters[k].Type = "ORIGINAL_DST"
                            ELSE /\ clusters[k].Type = "EDS"
                                 /\ clusters[k].EdsClusterConfig # Nil
                                 /\ clusters[k].EdsClusterConfig.EdsConfig.RefreshDelay # 0

\* a client-side-load-balanced service with a destination rule, under a mesh
\* refresh setting of zero, whose default cluster has the 5s refresh delay
C3_Witness ==
    /\ OutboundBuilt
    /\ env.Mesh.RdsRefreshDelay.Seconds = 0
    /\ \E i \in 1..Len(env.Services) :
        /\ env.Services[i].Resolution = "ClientSideLB"
        /\ DestinationRule(env, env.Services[i].Hostname) # Nil
        /\ ~topLevelPassthrough(DestinationRule(env, env.Services[i].Hostname))
        /\ \E k \in Named(clusters, DefaultClusterName(env.Services[i], env.Services[i].Ports[1])) :
            /\ clusters[k].Type = "EDS"
            /\ clusters[k].EdsClusterConfig.EdsConfig.RefreshDelay = 5 * Second

Applied == ppc \in {"built", "layered"}

simpleOf(policy) ==
    IF policy = Nil \/ policy.LoadBalancer = Nil THEN "absent" ELSE policy.LoadBalancer.Simple

\* C4: a policy whose load balancer is passthrough leaves the cluster, whatever
\* its discovery type was, with the original-destination load-balancing mode
\* and discovery type ORIGINAL_DST; a policy without a load-balancer block, or
\* with round-robin, least-connection or random, leaves the discovery type as
\* it was.
C4_PassthroughForcesOriginalDst ==
    Applied =>
        /\ simpleOf(lastPolicy) = "PASSTHROUGH" =>
             cl.LbPolicy = "ORIGINAL_DST_LB" /\ cl.Type = "ORIGINAL_DST"
        /\ simpleOf(lastPolicy) \in {"absent", "ROUND_ROBIN", "LEAST_CONN", "RANDOM"} =>
             cl.Type = prevCl.Type

\* a STRICT_DNS cluster turned into ORIGINAL_DST by a passthrough policy
C4_Witness ==
    /\ ppc = "layered"
    /\ simpleOf(lastPolicy) = "PASSTHROUGH"
    /\ prevCl.Type = "STRICT_DNS"
    /\ cl.Type = "ORIGINAL_DST"
    /\ cl.LbPolicy = "ORIGINAL_DST_LB"

\* the cluster as the baseline and the EDS and protocol set-up leave it
baselineOf(service, port, subsetName) ==
    setUpstreamProtocol(
        updateEds(env,
            buildDefaultCluster(env,
                BuildSubsetKey("outbound", subsetName, service.Hostname, port),
                convertResolution(service.Resolution),
                buildClusterHosts(env, service, port))),
        port)

\* the subset policy wins in the categories whose block it carries
subsetWins(c, alone, policy) ==
    policy # Nil =>
        /\ policy.ConnectionPool # Nil => c.CircuitBreakers = alone.CircuitBreakers
        /\ policy.OutlierDetection # Nil => c.OutlierDetection = alone.OutlierDetection
        /\ policy.LoadBalancer # Nil => c.LbPolicy = alone.LbPolicy
        /\ policy.Tls # Nil => c.TlsContext = alone.TlsContext

\* C5: in every subset cluster, for each of the four policy categories whose
\* block is present in the subset's policy, the cluster's settings in that
\* category are the ones the subset policy determines, not the ones the
\* rule-level policy determines.
C5_SubsetPolicyWins ==
    OutboundBuilt =>
        \A i \in 1..Len(env.Services) :
            LET service == env.Services[i]
                rule == DestinationRule(env, service.Hostname)
            IN rule # Nil =>
                \A j \in 1..Len(service.Ports), n \in 1..Len(rule.Subsets) :
                    LET subset == rule.Subsets[n]
                        name == BuildSubsetKey("outbound", subset.Name, service.Hostname,
                                               service.Ports[j])
                        alone == applyTrafficPolicy(
                                     baselineOf(service, service.Ports[j], subset.Name),
                                     subset.TrafficPolicy)
                    IN \A k \in Named(clusters, name) :
                          subsetWins(clusters[k], alone, subset.TrafficPolicy)

\* C6: after any sequence of policies, the circuit-breaker block holds exactly
\* one threshold record, with the fields the last connection-pool block sets
\* and no field of an earlier one.
C6_CircuitBreakerIsLastPool ==
    ppc \in {"built", "ready", "layered"} =>
        /\ cl.CircuitBreakers # Nil
        /\ Len(cl.CircuitBreakers.Thresholds) = 1
        /\ cl.CircuitBreakers.Thresholds[1] = thresholdOf(lastPool)

\* max-connections 10 and more set by one policy, then Tcp.MaxConnections = 20
\* with no Http block: max-connections is 20 and the other fields are unset
C6_Witness ==
    /\ ppc = "layered"
    /\ prevCl.CircuitBreakers # Nil
    /\ prevCl.CircuitBreakers.Thresholds[1].MaxConnections = UInt32Value(10)
    /\ prevCl.CircuitBreakers.Thresholds[1].MaxRequests # Nil
    /\ lastPolicy # Nil
    /\ lastPolicy.ConnectionPool = cpTcp20
    /\ cl.CircuitBreakers.Thresholds =
         <<[MaxConnections |-> UInt32Value(20), MaxPendingRequests |-> Nil,
            MaxRequests |-> Nil, MaxRetries |-> Nil]>>

RECURSIVE ExpectedOutbound(_)
ExpectedOutbound(services) ==
    IF services = <<>> THEN 0
    ELSE LET rule == DestinationRule(env, Head(services).Hostname)
         IN Len(Head(services).Ports) * (1 + IF rule = Nil THEN 0 ELSE Len(rule.Subsets))
            + ExpectedOutbound(Tail(services))

\* C7: the outbound clusters are one default cluster for every (service, port),
\* one cluster for every (service, port, subset) of a service with a
\* destination rule, and no other: their number is the sum over the services
\* of ports x (1 + subsets).
C7_OneClusterPerServicePortSubset ==
    OutboundBuilt =>
        LET out == OfDirection(clusters, "outbound")
        IN /\ Len(out) = ExpectedOutbound(env.Services)
           /\ \A i \in 1..Len(env.Services) :
                LET service == env.Services[i]
                    rule == DestinationRule(env, service.Hostname)
                IN /\ \A j \in 1..Len(service.Ports) :
                        /\ Cardinality(Named(out, DefaultClusterName(service, service.Ports[j]))) = 1
                        /\ rule # Nil =>
                             \A n \in 1..Len(rule.Subsets) :
                                Cardinality(Named(out,
                                    BuildSubsetKey("outbound", rule.Subsets[n].Name,
                                                   service.Hostname, service.Ports[j]))) = 1
                   /\ rule = Nil =>
                        \A k \in 1..Len(out) :
                            out[k].Name.hostname = service.Hostname => out[k].Name.subset = ""

\* two services, the first with two ports and a rule with a subset, the second
\* without a rule
C7_Witness ==
    /\ pc = "proxy"
    /\ Len(env.Services) = 2
    /\ Len(env.Services[1].Ports) = 2
    /\ DestinationRule(env, env.Services[1].Hostname) # Nil
    /\ Len(DestinationRule(env, env.Services[1].Hostname).Subsets) >= 1
    /\ DestinationRule(env, env.Services[2].Hostname) = Nil
    /\ Len(OfDirection(clusters, "outbound")) >= 4 + Len(env.Services[2].Ports)

\* C8: when the service list query fails, or the instance query of a sidecar
\* fails, BuildClusters returns nil and no cluster, also not the outbound
\* clusters built before the failure.
C8_FailureReturnsNil ==
    (pc = "done" /\ (env.ServicesErr \/ (proxy.Type = "sidecar" /\ proxyReply.err))) =>
        result.done /\ result.isNil /\ ReturnedList = <<>>

\* the instance query failed after outbound clusters had been built
C8_Witness ==
    /\ pc = "done"
    /\ ~env.ServicesErr
    /\ proxy.Type = "sidecar"
    /\ proxyReply.err
    /\ clusters # <<>>
    /\ result.isNil

\* C9: a sidecar with n instances and m management ports gets exactly n + m
\* inbound clusters, one per instance and one per management port, each STATIC
\* with the single host 127.0.0.1 and the instance's endpoint port or the
\* management port; any other proxy gets no inbound cluster.
C9_InboundClusters ==
    Returned =>
        LET inb == OfDirection(ReturnedList, "inbound")
            n == Len(proxyReply.instances)
            m == Len(proxyReply.ports)
        IN IF proxy.Type = "sidecar"
           THEN /\ Len(inb) = n + m
                /\ \A i \in 1..n :
                    /\ inb[i].Type = "STATIC"
                    /\ inb[i].Hosts = <<[Address |-> "127.0.0.1",
                                         Port |-> proxyReply.instances[i].Endpoint.Port]>>
                /\ \A i \in 1..m :
                    /\ inb[n + i].Type = "STATIC"
                    /\ inb[n + i].Hosts = <<[Address |-> "127.0.0.1",
                                             Port |-> proxyReply.ports[i].Port]>>
           ELSE inb = <<>>

\* two instances on 8080 and 9090 and the management port 15020
C9_Witness ==
    /\ Returned
    /\ proxy.Type = "sidecar"
    /\ Len(proxyReply.instances) = 2
    /\ Len(proxyReply.ports) = 1
    /\ Len(OfDirection(ReturnedList, "inbound")) = 3
    /\ \A i \in 1..3 : OfDirection(ReturnedList, "inbound")[i].Type = "STATIC"
    /\ OfDirection(ReturnedList, "inbound")[1].Hosts[1].Port = 8080
    /\ OfDirection(ReturnedList, "inbound")[2].Hosts[1].Port = 9090
    /\ OfDirection(ReturnedList, "inbound")[3].Hosts[1].Port = 15020

tcpOf(policy) ==
    IF policy = Nil \/ policy.ConnectionPool = Nil THEN Nil ELSE policy.ConnectionPool.Tcp

====
